---- MODULE Spec2Model ----
(***************************************************************************)
(* Model of scripts/optimize_images.py: a batch image optimizer that walks *)
(* a source tree, re-encodes or copies every image into a destination tree *)
(* (or in place, or into a throwaway file for a dry run) and prints a size *)
(* report.                                                                 *)
(*                                                                         *)
(* A path is a sequence of names relative to the working directory; a name *)
(* is the sequence of its dot-separated parts, each part the sequence of   *)
(* its characters (<< <<"a">>, <<"p","n","g">> >> is a.png).               *)
(* The file system is a function from the existing paths to nodes.         *)
(* A file's bytes are abstracted to what the imaging library reports about *)
(* them: the decoded format ("none" when the header is not an image), the  *)
(* byte size, and whether the body after the header is intact.             *)
(***************************************************************************)
EXTENDS Integers, Sequences, FiniteSets, TLC

\* The exploration stops at an image whose destination path has more
\* components than this (a destination inside the source tree feeds the
\* traversal with its own output, level after level).
MaxDepth == 5

KB == 1024
DefaultQuality == 85
LowQuality == DefaultQuality - 45
\* st_size the platform reports for a directory
DirSize == 4 * KB

VARIABLES args, fs, fs0, pc, dest_root, it, results, total_orig,
          total_new, out, exit_code

vars == <<args, fs, fs0, pc, dest_root, it, results, total_orig,
          total_new, out, exit_code>>

----------------------------------------------------------------------------
\* Paths and names

Last(s) == s[Len(s)]
Parent(p) == IF p = <<>> THEN <<>> ELSE SubSeq(p, 1, Len(p) - 1)
Prefixes(p) == {SubSeq(p, 1, k) : k \in 1..Len(p)}
IsPrefix(p, q) == Len(p) <= Len(q) /\ SubSeq(q, 1, Len(p)) = p

\* Path.suffix, without the dot: what follows the last dot of the name when
\* that dot is neither the first nor the last character of the name (the
\* empty sequence when the name has no suffix)
Suffix(p) ==
    IF p = <<>> THEN <<>>
    ELSE LET name == Last(p)
             n == Len(name)
         IN IF /\ n > 1
               /\ ~(n = 2 /\ name[1] = <<>>)
               /\ name[n] # <<>>
            THEN name[n] ELSE <<>>

UpperCase ==
    <<"A", "B", "C", "D", "E", "F", "G", "H", "I", "J", "K", "L", "M",
      "N", "O", "P", "Q", "R", "S", "T", "U", "V", "W", "X", "Y", "Z">>
LowerCase ==
    <<"a", "b", "c", "d", "e", "f", "g", "h", "i", "j", "k", "l", "m",
      "n", "o", "p", "q", "r", "s", "t", "u", "v", "w", "x", "y", "z">>

\* str.lower() on one character
LowerChar(c) ==
    IF \E k \in 1..Len(UpperCase) : UpperCase[k] = c
    THEN LowerCase[CHOOSE k \in 1..Len(UpperCase) : UpperCase[k] = c]
    ELSE c

\* str.lower()
Lower(s) == [k \in 1..Len(s) |-> LowerChar(s[k])]

ImageSuffixes ==
    { <<"j", "p", "g">>, <<"j", "p", "e", "g">>, <<"p", "n", "g">>,
      <<"w", "e", "b", "p">>, <<"g", "i", "f">> }
SupportedFormats == {"JPEG", "PNG", "WEBP", "GIF"}

\* dst_path.with_suffix(dst_path.suffix + ".tmp")
WithTmpSuffix(p) == [p EXCEPT ![Len(p)] = Append(@, <<"t", "m", "p">>)]

\* img_path.relative_to(src)
RelativeTo(p, base) == SubSeq(p, Len(base) + 1, Len(p))

----------------------------------------------------------------------------
\* File system

NoData == [fmt |-> "none", size |-> DirSize, intact |-> TRUE]
Dir == [type |-> "dir", data |-> NoData]
File(fmt, size, intact) ==
    [type |-> "file", data |-> [fmt |-> fmt, size |-> size, intact |-> intact]]

Exists(f, p) == p \in DOMAIN f
IsDir(f, p) == p \in DOMAIN f /\ f[p].type = "dir"
IsFile(f, p) == p \in DOMAIN f /\ f[p].type = "file"
StatSize(f, p) == f[p].data.size

Put(f, p, node) == [q \in DOMAIN f \cup {p} |-> IF q = p THEN node ELSE f[q]]
Remove(f, p) == [q \in DOMAIN f \ {p} |-> f[q]]

\* Path.mkdir(parents=True, exist_ok=True); exc = "" when nothing is raised
MkdirParents(f, p) ==
    IF Exists(f, p)
    THEN [fs |-> f, exc |-> IF IsDir(f, p) THEN "" ELSE "FileExistsError"]
    ELSE IF \E q \in Prefixes(p) : IsFile(f, q)
    THEN [fs |-> f, exc |-> "NotADirectoryError"]
    ELSE [fs |-> [q \in DOMAIN f \cup Prefixes(p) |->
                    IF q \in DOMAIN f THEN f[q] ELSE Dir],
          exc |-> ""]

\* open(p, "w+b") / open(p, "wb"): the exception raised, "" when it succeeds
OpenForWrite(f, p) ==
    IF IsDir(f, p) THEN "IsADirectoryError"
    ELSE IF \E q \in Prefixes(Parent(p)) : IsFile(f, q) THEN "NotADirectoryError"
    ELSE IF ~Exists(f, Parent(p)) THEN "FileNotFoundError"
    ELSE ""

----------------------------------------------------------------------------
\* The imaging library, as far as the script depends on it

\* Byte size of the re-encoded image: JPEG and WEBP depend on the quality,
\* PNG and GIF do not; an output may be larger than its input.
EncodedSize(fmt, size, quality) ==
    CASE fmt = "JPEG" -> (size * (quality + 15)) \div 100
      [] fmt = "WEBP" -> (size * (quality + 10)) \div 100
      [] fmt = "PNG"  -> size - (size \div 4)
      [] fmt = "GIF"  -> size + 64

\* img.save(dst, fmt, **save_kwargs): decodes the body, then opens dst
SaveImage(f, data, dst, quality) ==
    IF ~data.intact THEN [fs |-> f, exc |-> "OSError"]
    ELSE IF OpenForWrite(f, dst) # "" THEN [fs |-> f, exc |-> OpenForWrite(f, dst)]
    ELSE [fs |-> Put(f, dst, File(data.fmt,
                                  EncodedSize(data.fmt, data.size, quality),
                                  TRUE)),
          exc |-> ""]

\* shutil.copy2(src, dst): a directory dst receives the file under src's name
Copy2(f, src, dst) ==
    LET real == IF IsDir(f, dst) THEN Append(dst, Last(src)) ELSE dst IN
    IF real = src THEN [fs |-> f, exc |-> "SameFileError"]
    ELSE IF OpenForWrite(f, real) # "" THEN [fs |-> f, exc |-> OpenForWrite(f, real)]
    ELSE [fs |-> Put(f, real, f[src]), exc |-> ""]

----------------------------------------------------------------------------
\* optimize_image

Status(tag, msg) == [tag |-> tag, msg |-> msg]
IsError(status) == status.tag = "error"

Info(src, dst, status, orig_size, new_size) ==
    [src |-> src, dst |-> dst, status |-> status,
     orig_size |-> orig_size, new_size |-> new_size]

\* The size recorded for a written destination: dst.stat().st_size
NewSize(f, dst) == StatSize(f, dst)

\* The size recorded for the source: src.stat().st_size
OrigSize(f, src) == StatSize(f, src)

\* A variant that reads the size of the source before decoding it
OrigSizeOnDecodeError_Stat(f, src) == StatSize(f, src)

\* orig_size of the result of a file that failed to decode
OrigSizeOnDecodeError(f, src) == 0

optimize_image(f, src, dst, quality) ==
    LET made == MkdirParents(f, Parent(dst))
        skipped == Info(src, dst, Status("skipped", ""), 0, 0)
        data == f[src].data
    IN
    IF made.exc # "" THEN [fs |-> made.fs, info |-> skipped, exc |-> made.exc]
    ELSE IF data.fmt = "none"
    THEN [fs |-> made.fs,
          info |-> Info(src, dst, Status("error", "cannot identify image file"),
                        OrigSizeOnDecodeError(made.fs, src), 0),
          exc |-> ""]
    ELSE IF data.fmt \notin SupportedFormats
    THEN LET c == Copy2(made.fs, src, dst) IN
         IF c.exc # "" THEN [fs |-> c.fs, info |-> skipped, exc |-> c.exc]
         ELSE [fs |-> c.fs,
               info |-> Info(src, dst, Status("copied", ""),
                             OrigSize(made.fs, src), NewSize(c.fs, dst)),
               exc |-> ""]
    ELSE LET s == SaveImage(made.fs, data, dst, quality) IN
         IF s.exc # "" THEN [fs |-> s.fs, info |-> skipped, exc |-> s.exc]
         ELSE [fs |-> s.fs,
               info |-> Info(src, dst, Status("optimized", ""),
                             OrigSize(made.fs, src), NewSize(s.fs, dst)),
               exc |-> ""]

----------------------------------------------------------------------------
\* Path.rglob("*") and iter_images

\* The sequences that enumerate the set S, each element once
RECURSIVE Orderings(_)
Orderings(S) ==
    IF S = {} THEN {<<>>}
    ELSE UNION { {<<x>> \o s : s \in Orderings(S \ {x})} : x \in S }

Children(f, d) == {p \in DOMAIN f : p # <<>> /\ Parent(p) = d}

\* list(scandir(d)): the children of d at the time of the call, in whatever
\* order the platform enumerates them
Listings(f, d) == Orderings(Children(f, d))

Frame(d, scanned, rem) == [dir |-> d, scanned |-> scanned, rem |-> rem]

\* The generator before its first next()
NewIterator(root) == [started |-> FALSE, root |-> root, wild |-> <<>>, stack |-> <<>>]

Exhausted(i) == [found |-> FALSE, path |-> <<>>, it |-> i]

\* One next() of src_dir.rglob("*"): the set of its possible outcomes, one
\* for every order in which the directories it lists may be enumerated.
\* wild holds what is left of the listing of the directory being matched
\* against "*"; stack holds the activations of _iterate_directories, each
\* listing its directory again (for its subdirectories) only after every
\* entry of the first listing was yielded.
RECURSIVE rglob_next(_, _)
rglob_next(f, i) ==
    IF ~i.started
    THEN IF IsDir(f, i.root)
         THEN UNION { rglob_next(f, [i EXCEPT !.started = TRUE,
                                              !.wild = w,
                                              !.stack = <<Frame(i.root, FALSE, <<>>)>>])
                      : w \in Listings(f, i.root) }
         ELSE {Exhausted([i EXCEPT !.started = TRUE])}
    ELSE IF i.wild # <<>>
    THEN {[found |-> TRUE, path |-> Head(i.wild), it |-> [i EXCEPT !.wild = Tail(@)]]}
    ELSE IF i.stack = <<>>
    THEN {Exhausted(i)}
    ELSE LET n == Len(i.stack)
             top == i.stack[n]
             rems == IF top.scanned THEN {top.rem}
                     ELSE {SelectSeq(l, LAMBDA q : IsDir(f, q)) : l \in Listings(f, top.dir)}
         IN UNION {
              IF rem = <<>>
              THEN rglob_next(f, [i EXCEPT !.stack = SubSeq(@, 1, n - 1)])
              ELSE UNION { rglob_next(f,
                             [i EXCEPT !.wild = w,
                                       !.stack = Append([@ EXCEPT ![n] = Frame(top.dir, TRUE, Tail(rem))],
                                                        Frame(Head(rem), FALSE, <<>>))])
                           : w \in Listings(f, Head(rem)) }
              : rem \in rems }

\* p.is_file() and p.suffix.lower() in (".jpg", ".jpeg", ".png", ".webp", ".gif")
IsImagePath(f, p) == IsFile(f, p) /\ Lower(Suffix(p)) \in ImageSuffixes

\* One next() of iter_images(src): the set of its possible outcomes
RECURSIVE iter_images_next(_, _)
iter_images_next(f, i) ==
    UNION { IF ~n.found \/ IsImagePath(f, n.path) THEN {n}
            ELSE iter_images_next(f, n.it)
            : n \in rglob_next(f, i) }

----------------------------------------------------------------------------
\* main

\* args.dest: None when --dest is absent, otherwise the string given, kept
\* as whether it is the empty string and the path it denotes ("." and ""
\* both denote the path without components)
NoDest == [given |-> FALSE, empty |-> TRUE, path |-> <<>>]
EmptyDest == [given |-> TRUE, empty |-> TRUE, path |-> <<>>]
DestArg(p) == [given |-> TRUE, empty |-> FALSE, path |-> p]
\* truth value of args.dest: None and the empty string are false
Truthy(dest) == dest.given /\ ~dest.empty

DefaultDest ==
    << << <<"i", "m", "a", "g", "e", "s", "_", "o", "p", "t", "i", "m",
            "i", "z", "e", "d">> >> >>

\* the literal 0 that pct is when nothing was measured
ZeroPct == [saved |-> 0, total_orig |-> 0]

NoTotals == [printed |-> FALSE, origKB |-> 0, newKB |-> 0, savedKB |-> 0, pct |-> ZeroPct]
NoOutput == [message |-> "", lines |-> <<>>, totals |-> NoTotals]

\* the // operator
FloorDiv(a, b) == a \div b

\* pct: the literal 0 when total_orig is 0, otherwise the floating-point
\* value of saved / total_orig * 100, which is kept as its two operands
\* (its binary rounding and its one-decimal rendering are not computed)
Percentage(saved, orig) ==
    IF orig # 0 THEN [saved |-> saved, total_orig |-> orig] ELSE ZeroPct

\* State of main once validation has passed or failed
Machine(f, p, root, i, res, torig, tnew, o, code) ==
    [fs |-> f, pc |-> p, dest_root |-> root, it |-> i, results |-> res,
     total_orig |-> torig, total_new |-> tnew, out |-> o, exit_code |-> code]

Raise(m, f, exc) ==
    [m EXCEPT !.fs = f, !.pc = "crashed", !.exit_code = 1, !.out.message = exc]

\* dest_root of line 95
DestRoot(a) ==
    IF Truthy(a.dest) THEN a.dest.path
    ELSE IF a.inplace THEN a.src ELSE DefaultDest

\* Lines 86-101: validation, the destination root, the empty accumulators
main_start(a, f) ==
    LET m0 == Machine(f, "start", <<>>, NewIterator(a.src), <<>>, 0, 0, NoOutput, -1)
        root == DestRoot(a)
        made == IF ~a.inplace THEN MkdirParents(f, root) ELSE [fs |-> f, exc |-> ""]
    IN
    IF ~Exists(f, a.src)
    THEN [m0 EXCEPT !.pc = "rejected", !.exit_code = 2,
                    !.out.message = "Source folder not found"]
    ELSE IF a.inplace /\ Truthy(a.dest)
    THEN [m0 EXCEPT !.pc = "rejected", !.exit_code = 2,
                    !.out.message = "Cannot use --inplace and --dest together"]
    ELSE IF made.exc # "" THEN Raise(m0, made.fs, made.exc)
    ELSE [m0 EXCEPT !.fs = made.fs, !.pc = "loop", !.dest_root = root]

\* dst_path of line 105
DstPath(a, root, img_path) ==
    IF ~a.inplace THEN root \o RelativeTo(img_path, a.src) ELSE img_path

\* The path handed to optimize_image (lines 106-113)
TargetPath(a, root, img_path) ==
    IF a.dry_run THEN WithTmpSuffix(DstPath(a, root, img_path))
    ELSE DstPath(a, root, img_path)

\* Lines 110-111: temp_dst.unlink() if it exists
UnlinkTemp(f, temp_dst) ==
    IF ~Exists(f, temp_dst) THEN [fs |-> f, exc |-> ""]
    ELSE IF IsDir(f, temp_dst) THEN [fs |-> f, exc |-> "IsADirectoryError"]
    ELSE [fs |-> Remove(f, temp_dst), exc |-> ""]

\* A variant whose dry run measures nothing: it records the file as skipped
main_body_DryRunSkips(a, m, img_path, next_it) ==
    LET target == TargetPath(a, m.dest_root, img_path)
        r == optimize_image(m.fs, img_path, target, a.quality)
        m1 == [m EXCEPT !.it = next_it]
    IN
    IF a.dry_run
    THEN [m1 EXCEPT !.results =
                Append(@, Info(img_path, target, Status("skipped", ""), 0, 0))]
    ELSE IF r.exc # "" THEN Raise(m1, r.fs, r.exc)
    ELSE [m1 EXCEPT !.fs = r.fs,
                    !.results = Append(@, r.info),
                    !.total_orig = @ + r.info.orig_size,
                    !.total_new = @ + r.info.new_size]

\* Lines 104-116: the loop body for one image
main_body(a, m, img_path, next_it) ==
    LET target == TargetPath(a, m.dest_root, img_path)
        r == optimize_image(m.fs, img_path, target, a.quality)
        u == IF a.dry_run THEN UnlinkTemp(r.fs, target) ELSE [fs |-> r.fs, exc |-> ""]
        m1 == [m EXCEPT !.it = next_it]
    IN
    IF r.exc # "" THEN Raise(m1, r.fs, r.exc)
    ELSE IF u.exc # "" THEN Raise(m1, u.fs, u.exc)
    ELSE [m1 EXCEPT !.fs = u.fs,
                    !.results = Append(@, r.info),
                    !.total_orig = @ + r.info.orig_size,
                    !.total_new = @ + r.info.new_size]

\* Lines 121-131: one report line per result
ReportLine(r) ==
    IF IsError(r.status)
    THEN [kind |-> "ERR", src |-> r.src, dst |-> r.dst, status |-> r.status,
          origKB |-> 0, newKB |-> 0]
    ELSE IF r.orig_size # 0 /\ r.new_size # 0
    THEN [kind |-> "sizes", src |-> r.src, dst |-> r.dst, status |-> r.status,
          origKB |-> FloorDiv(r.orig_size, KB), newKB |-> FloorDiv(r.new_size, KB)]
    ELSE [kind |-> "status", src |-> r.src, dst |-> r.dst, status |-> r.status,
          origKB |-> 0, newKB |-> 0]

\* A variant that prints the difference of the two kilobyte figures
Totals_KBDifference(torig, tnew) ==
    [printed |-> TRUE,
     origKB |-> FloorDiv(torig, KB),
     newKB |-> FloorDiv(tnew, KB),
     savedKB |-> FloorDiv(torig, KB) - FloorDiv(tnew, KB),
     pct |-> Percentage(torig - tnew, torig)]

\* Lines 119-120 and 133-134: the totals line
Totals(torig, tnew) ==
    LET saved == torig - tnew IN
    [printed |-> TRUE,
     origKB |-> FloorDiv(torig, KB),
     newKB |-> FloorDiv(tnew, KB),
     savedKB |-> FloorDiv(saved, KB),
     pct |-> Percentage(saved, torig)]

\* Lines 118-134: the summary, then the normal end of the process
main_report(m) ==
    [m EXCEPT !.pc = "done", !.exit_code = 0,
              !.out.lines = [k \in 1..Len(m.results) |-> ReportLine(m.results[k])],
              !.out.totals = Totals(m.total_orig, m.total_new)]

----------------------------------------------------------------------------
\* The runs explored: command lines and initial trees

Images == << <<"i", "m", "a", "g", "e", "s">> >>
Out == << <<"o", "u", "t">> >>
APng == << <<"a">>, <<"p", "n", "g">> >>
BJpg == << <<"B">>, <<"J", "P", "G">> >>
CGif == << <<"c">>, <<"g", "i", "f">> >>
DPng == << <<"d">>, <<"p", "n", "g">> >>
ATmp == << <<"a">>, <<"p", "n", "g">>, <<"t", "m", "p">> >>
\* a file named .jpg: a name without suffix
DotJpg == << <<>>, <<"j", "p", "g">> >>

SrcPath == <<Images>>
OutPath == <<Out>>
InnerPath == SrcPath \o OutPath

Qualities == {DefaultQuality, LowQuality}
\* --dest absent, --dest "", --dest ., a directory of its own, one inside
\* the source tree, and the source directory itself
DestArgs ==
    {NoDest, EmptyDest, DestArg(<<>>), DestArg(OutPath), DestArg(InnerPath),
     DestArg(SrcPath)}

ArgSets ==
    [src : {SrcPath}, dest : DestArgs, inplace : BOOLEAN,
     quality : Qualities, dry_run : BOOLEAN]

Tree(entries) == [p \in {e[1] : e \in entries} |->
                    (CHOOSE e \in entries : e[1] = p)[2]]

\* images/a.png: a PNG, a BMP under a .png name, bytes that are no image,
\* a PNG cut short after its header
AKinds == {"absent", "PNG", "BMP", "none", "truncated"}
AEntry(kind) ==
    CASE kind = "absent" -> {}
      [] kind = "PNG" -> {<<Append(SrcPath, APng), File("PNG", 2000, TRUE)>>}
      [] kind = "BMP" -> {<<Append(SrcPath, APng), File("BMP", 1200, TRUE)>>}
      [] kind = "none" -> {<<Append(SrcPath, APng), File("none", 300, TRUE)>>}
      [] kind = "truncated" -> {<<Append(SrcPath, APng), File("PNG", 1800, FALSE)>>}

\* what is under images/: a.png, B.JPG, a.png.tmp, the directory d.png
\* holding c.gif and a JPEG named .jpg, and the directory out holding an
\* a.png with WEBP data
SourceTrees ==
    { {<<SrcPath, Dir>>}
        \cup AEntry(a)
        \cup (IF b THEN {<<Append(SrcPath, BJpg), File("JPEG", 3000, TRUE)>>} ELSE {})
        \cup (IF t THEN {<<Append(SrcPath, ATmp), File("none", 10, TRUE)>>} ELSE {})
        \cup (IF d THEN {<<Append(SrcPath, DPng), Dir>>,
                         <<SrcPath \o <<DPng, CGif>>, File("GIF", 900, TRUE)>>,
                         <<SrcPath \o <<DPng, DotJpg>>, File("JPEG", 400, TRUE)>>} ELSE {})
        \cup (IF o THEN {<<InnerPath, Dir>>,
                         <<Append(InnerPath, APng), File("WEBP", 700, TRUE)>>} ELSE {})
      : a \in AKinds, b \in BOOLEAN, t \in BOOLEAN, d \in BOOLEAN, o \in BOOLEAN }
    \cup { {}, {<<SrcPath, File("none", 5, TRUE)>>} }

\* what is at out/ before the run
OutTrees ==
    { {},
      {<<OutPath, Dir>>},
      {<<OutPath, Dir>>, <<Append(OutPath, APng), File("PNG", 555, TRUE)>>},
      {<<OutPath, Dir>>, <<Append(OutPath, ATmp), File("none", 20, TRUE)>>},
      {<<OutPath, Dir>>, <<Append(OutPath, APng), Dir>>},
      {<<OutPath, Dir>>, <<Append(OutPath, ATmp), Dir>>} }

InitialTrees ==
    { Tree({<< <<>>, Dir >>} \cup s \cup o) : s \in SourceTrees, o \in OutTrees }

----------------------------------------------------------------------------
\* The state machine

CurrentMachine ==
    Machine(fs, pc, dest_root, it, results, total_orig, total_new, out, exit_code)

Becomes(m) ==
    /\ fs' = m.fs
    /\ pc' = m.pc
    /\ dest_root' = m.dest_root
    /\ it' = m.it
    /\ results' = m.results
    /\ total_orig' = m.total_orig
    /\ total_new' = m.total_new
    /\ out' = m.out
    /\ exit_code' = m.exit_code
    /\ UNCHANGED <<args, fs0>>

Init ==
    /\ args \in ArgSets
    /\ fs0 \in InitialTrees
    /\ fs = fs0
    /\ pc = "start"
    /\ dest_root = <<>>
    /\ it = NewIterator(args.src)
    /\ results = <<>>
    /\ total_orig = 0
    /\ total_new = 0
    /\ out = NoOutput
    /\ exit_code = -1

\* Argument validation and the creation of the destination root
Start ==
    /\ pc = "start"
    /\ Becomes(main_start(args, fs))

\* One iteration of the loop over iter_images(src), for the image that the
\* traversal yields next under some enumeration order
ProcessImage ==
    /\ pc = "loop"
    /\ \E n \in iter_images_next(fs, it) :
          /\ n.found
          /\ Len(TargetPath(args, dest_root, n.path)) <= MaxDepth
          /\ Becomes(main_body(args, CurrentMachine, n.path, n.it))

\* The traversal is exhausted: the summary is printed and main returns
Report ==
    /\ pc = "loop"
    /\ \E n \in iter_images_next(fs, it) :
          /\ ~n.found
          /\ Becomes(main_report([CurrentMachine EXCEPT !.it = n.it]))

Next == Start \/ ProcessImage \/ Report

Spec == Init /\ [][Next]_vars

Names ==
    {Images, Out, APng, BJpg, CGif, DPng, ATmp, DotJpg, DefaultDest[1],
     Append(BJpg, <<"t", "m", "p">>), Append(CGif, <<"t", "m", "p">>)}

TypeOK ==
    /\ pc \in {"start", "loop", "done", "rejected", "crashed"}
    /\ exit_code \in {-1, 0, 1, 2}
    /\ Len(results) <= 2 * MaxDepth
    /\ \A p \in DOMAIN fs : p = <<>> \/
          (/\ Len(p) <= MaxDepth
           /\ Exists(fs, Parent(p)) /\ IsDir(fs, Parent(p))
           /\ Last(p) \in Names)

----------------------------------------------------------------------------
\* Vocabulary of the properties

\* The images the loop may process next (one for every order in which the
\* traversal may enumerate), and what optimize_image does with one of them
\* from the current state
Pending ==
    IF pc = "loop"
    THEN {n.path : n \in {x \in iter_images_next(fs, it) : x.found}}
    ELSE {}
Target(p) == TargetPath(args, dest_root, p)
Result(p) == optimize_image(fs, p, Target(p), args.quality)
Format(p) == fs[p].data.fmt

\* The files of f, and whether g has exactly the files of f with their bytes
FilesOf(f) == {p \in DOMAIN f : IsFile(f, p)}
SameFiles(f, g) == FilesOf(f) = FilesOf(g) /\ \A p \in FilesOf(f) : f[p] = g[p]

\* Whether the trees f and g agree on everything at or below root
SameBelow(root, f, g) ==
    \A p \in DOMAIN f \cup DOMAIN g :
        IsPrefix(root, p) => (p \in DOMAIN f /\ p \in DOMAIN g /\ f[p] = g[p])

\* The image files below the source directory in the tree f
SourceImages(f) ==
    {p \in DOMAIN f : IsPrefix(args.src, p) /\ p # args.src /\ IsImagePath(f, p)}

ResultSources == {results[k].src : k \in 1..Len(results)}

RECURSIVE SumOrig(_)
SumOrig(rs) == IF rs = <<>> THEN 0 ELSE Head(rs).orig_size + SumOrig(Tail(rs))
RECURSIVE SumNew(_)
SumNew(rs) == IF rs = <<>> THEN 0 ELSE Head(rs).new_size + SumNew(Tail(rs))

\* Division that rounds toward zero
TruncDiv(a, b) == IF a >= 0 THEN a \div b ELSE -((-a) \div b)

----------------------------------------------------------------------------
\* C1: once validation has passed and the traversal has begun, a failure
\* while processing one file never aborts the run: the run stays in the loop
\* until it ends normally, with the report printed (one line per result and
\* the totals line) and exit code 0.
C1_FileFailureNeverAborts ==
    it.started =>
        /\ pc \in {"loop", "done"}
        /\ pc = "done" => (/\ exit_code = 0
                           /\ out.totals.printed
                           /\ Len(out.lines) = Len(results))

InvalidInvocation ==
    ~Exists(fs0, args.src) \/ (args.dest.given /\ args.inplace)

\* C2: an invocation whose source path does not exist, or that gives both
\* --dest and --inplace, ends with exit code 2 with the file system exactly
\* as it was and no file processed.
C2_InvalidInvocationRejected ==
    (pc # "start" /\ InvalidInvocation) =>
        (pc = "rejected" /\ exit_code = 2 /\ fs = fs0 /\ results = <<>>)

\* C3: after a complete dry run the tree at and below the destination root
\* is exactly what it was before the run: nothing added, nothing modified,
\* nothing removed.
C3_DryRunLeavesDestination ==
    (args.dry_run /\ pc = "done") => SameBelow(dest_root, fs0, fs)

\* C4: the sources of the results are image files that were in the source
\* tree when the run began, none of them appears twice, and when the run is
\* complete every one of them appears.
C4_EachImageExactlyOnce ==
    /\ ResultSources \subseteq SourceImages(fs0)
    /\ \A j, k \in 1..Len(results) : j # k => results[j].src # results[k].src
    /\ pc = "done" => SourceImages(fs0) \subseteq ResultSources

\* C5: whenever the next file decodes to an image of a format other than
\* JPEG, PNG, WEBP, GIF, optimize_image copies the source bytes to the
\* destination it is given and returns status copied with new_size equal to
\* orig_size, whatever the mode.
C5_UnsupportedFormatCopied ==
    \A p \in Pending :
        Format(p) \notin SupportedFormats \cup {"none"} =>
            /\ Result(p).exc = ""
            /\ Result(p).info.status.tag = "copied"
            /\ Result(p).info.new_size = Result(p).info.orig_size
            /\ IsFile(Result(p).fs, Target(p))
            /\ Result(p).fs[Target(p)].data = fs[p].data

\* C6 as stated: the result of a file that cannot be decoded has an error
\* status, orig_size equal to the byte size of the source file, new_size 0,
\* and no file is written for it.
C6_DecodeErrorKeepsOrigSize ==
    \A p \in Pending :
        (Format(p) = "none" /\ Result(p).exc = "") =>
            /\ IsError(Result(p).info.status)
            /\ Result(p).info.orig_size = StatSize(fs, p)
            /\ Result(p).info.new_size = 0
            /\ SameFiles(fs, Result(p).fs)

\* C6 as amended: the result of a file that cannot be decoded has an error
\* status, orig_size 0 and new_size 0, and optimize_image writes no file for
\* it; every result with an error status has both sizes 0.
C6_DecodeErrorHasZeroSizes ==
    /\ \A p \in Pending :
          (Format(p) = "none" /\ Result(p).exc = "") =>
              /\ IsError(Result(p).info.status)
              /\ Result(p).info.orig_size = 0
              /\ Result(p).info.new_size = 0
              /\ SameFiles(fs, Result(p).fs)
    /\ \A k \in 1..Len(results) :
          IsError(results[k].status) =>
              (results[k].orig_size = 0 /\ results[k].new_size = 0)

\* C6 witness: a file of 300 bytes that could not be decoded has its result
C6_Witness ==
    \E k \in 1..Len(results) :
        /\ IsError(results[k].status)
        /\ StatSize(fs0, results[k].src) = 300
        /\ fs0[results[k].src].data.fmt = "none"

\* C7: a result with status error or skipped has new_size 0, and a result
\* with status optimized or copied has new_size equal to the byte size of
\* the file that optimize_image wrote at its destination path.
C7_NewSizeIsWrittenSize ==
    \A p \in Pending :
        Result(p).exc = "" =>
            /\ Result(p).info.status.tag \in {"error", "skipped"} =>
                  Result(p).info.new_size = 0
            /\ Result(p).info.status.tag \in {"optimized", "copied"} =>
                  /\ IsFile(Result(p).fs, Result(p).info.dst)
                  /\ Result(p).info.new_size =
                         StatSize(Result(p).fs, Result(p).info.dst)

Disjoint(p, q) == ~IsPrefix(p, q) /\ ~IsPrefix(q, p)

SeparateDestination ==
    ~args.inplace /\ Disjoint(DestRoot(args), args.src)

\* What is measured for the source image p, as a function of the initial
\* tree and the quality alone: whether processing it raises, and otherwise
\* the status and the two sizes of its result
Measured(p) ==
    LET d == fs0[p].data IN
    IF d.fmt = "none" THEN [raises |-> FALSE, row |-> <<"error", 0, 0>>]
    ELSE IF d.fmt \notin SupportedFormats
    THEN [raises |-> FALSE, row |-> <<"copied", d.size, d.size>>]
    ELSE IF ~d.intact THEN [raises |-> TRUE, row |-> <<"skipped", 0, 0>>]
    ELSE [raises |-> FALSE,
          row |-> <<"optimized", d.size, EncodedSize(d.fmt, d.size, args.quality)>>]

RECURSIVE SumMeasured(_, _)
SumMeasured(S, k) ==
    IF S = {} THEN 0
    ELSE LET p == CHOOSE q \in S : TRUE
         IN Measured(p).row[k] + SumMeasured(S \ {p}, k)

\* The run, with or without --dry-run, records for every file what Measured
\* says, ends normally exactly when no file raises, and then prints the
\* totals of what Measured says
SameWithAndWithoutDryRun ==
    /\ \A k \in 1..Len(results) :
          /\ results[k].src \in SourceImages(fs0)
          /\ ~Measured(results[k].src).raises
          /\ <<results[k].status.tag, results[k].orig_size, results[k].new_size>>
                = Measured(results[k].src).row
    /\ pc = "done" =>
          /\ ResultSources = SourceImages(fs0)
          /\ out.totals = Totals(SumMeasured(SourceImages(fs0), 2),
                                 SumMeasured(SourceImages(fs0), 3))
    /\ pc = "crashed" =>
          \E p \in SourceImages(fs0) \ ResultSources : Measured(p).raises

\* C8 as stated: with a destination that is neither the source tree nor
\* inside it (nor around it), a run with --dry-run and a run without it
\* report the same sizes: each records for every source image the same
\* status, orig_size and new_size, both end the same way, and both print
\* the same totals line.
C8_DryRunReportsSameSizes ==
    SeparateDestination => SameWithAndWithoutDryRun

\* No directory stands where an image of the source tree is to be written,
\* neither at its destination path nor at that path with .tmp appended
Unobstructed ==
    \A p \in SourceImages(fs0) :
        /\ ~IsDir(fs0, DstPath(args, DestRoot(args), p))
        /\ ~IsDir(fs0, WithTmpSuffix(DstPath(args, DestRoot(args), p)))

\* C8 as amended: the same, provided no directory stands at the destination
\* path of an image or at that path with .tmp appended.
C8_DryRunReportsSameSizesUnobstructed ==
    (SeparateDestination /\ Unobstructed) => SameWithAndWithoutDryRun

\* C8 witness: a complete dry run to a separate destination of a tree with
\* at least two images, one of which was re-encoded to a different size
C8_Witness ==
    /\ pc = "done" /\ args.dry_run /\ SeparateDestination /\ Unobstructed
    /\ Len(results) >= 2
    /\ \E k \in 1..Len(results) :
          /\ results[k].status.tag = "optimized"
          /\ results[k].new_size # results[k].orig_size

\* C9 as stated: at the end of a run the totals are the sums of orig_size
\* and of new_size over the results, each figure of the totals line is the
\* byte figure divided by 1024 rounding toward zero, the percentage is 0
\* when the total original size is 0, and a run without results prints no
\* result line and all-zero totals.
C9_TotalsTruncated ==
    pc = "done" =>
        LET o == SumOrig(results)
            n == SumNew(results)
        IN /\ total_orig = o /\ total_new = n
           /\ out.totals.printed
           /\ out.totals.origKB = TruncDiv(o, KB)
           /\ out.totals.newKB = TruncDiv(n, KB)
           /\ out.totals.savedKB = TruncDiv(o - n, KB)
           /\ o = 0 => out.totals.pct = ZeroPct
           /\ results = <<>> =>
                 (/\ out.lines = <<>>
                  /\ out.totals = [NoTotals EXCEPT !.printed = TRUE])

\* C9 as amended: the same, with each figure the byte figure divided by 1024
\* rounding down (a negative saved figure rounds away from zero).
C9_TotalsFloored ==
    pc = "done" =>
        LET o == SumOrig(results)
            n == SumNew(results)
            t == out.totals
        IN /\ total_orig = o /\ total_new = n
           /\ t.printed
           /\ t.origKB * KB <= o /\ o < (t.origKB + 1) * KB
           /\ t.newKB * KB <= n /\ n < (t.newKB + 1) * KB
           /\ t.savedKB * KB <= o - n /\ o - n < (t.savedKB + 1) * KB
           /\ o = 0 => t.pct = ZeroPct
           /\ results = <<>> =>
                 (/\ out.lines = <<>>
                  /\ t = [NoTotals EXCEPT !.printed = TRUE])

\* C9 witness: a complete run whose output is larger than its input
C9_Witness ==
    /\ pc = "done"
    /\ results # <<>>
    /\ total_new > total_orig
    /\ out.totals.savedKB < 0

\* C10: after a complete dry run every file that was below the source
\* directory is still there with the same bytes, and no file has been added
\* below it.
C10_DryRunLeavesSource ==
    (args.dry_run /\ pc = "done") =>
        \A p \in DOMAIN fs0 \cup DOMAIN fs :
            (IsPrefix(args.src, p) /\ (IsFile(fs0, p) \/ IsFile(fs, p))) =>
                (IsFile(fs0, p) /\ IsFile(fs, p) /\ fs[p] = fs0[p])

====
